---- MODULE Spec2Model ----
(***************************************************************************)
(* Model of sync_spotify_to_yandex.py: one-way incremental replication of  *)
(* the Spotify "liked" list into Yandex Music likes, with a persisted      *)
(* state file (processed ids + watermark).                                 *)
(*                                                                         *)
(* Timestamps are integers counted in ticks of 1/TicksPerSec second; the   *)
(* value None (0) stands for Python's None, a missing or an unparseable    *)
(* added_at.  Spotify delivers second precision, so every added_at drawn   *)
(* by the model is a whole number of seconds.                              *)
(***************************************************************************)
EXTENDS Integers, Sequences, FiniteSets, TLC

\* ------------------------------------------------------------ bounds
MaxItems == 3        \* tracks the user may ever like in Spotify
MaxSec == 3          \* latest second at which a track is liked
MaxKeys == 1         \* distinct TargetLikeKeys ("track_id:album_id")
PageLimit == 2       \* page_limit argument of fetch_spotify_liked_tracks
MaxOdd == 1          \* library entries without track payload or added_at
MaxReliked == 1      \* tracks 1..MaxReliked may be un-liked and liked again

\* -------------------------------------------------------- constants
TicksPerSec == 2     \* format_spotify_ts drops what is below one second
MaxAttempts == 3     \* range(3) of both retry loops
None == 0

ItemIds == 1..MaxItems
Keys == 1..MaxKeys
NoAlbum == -1        \* a candidate without track id or albums
Secs == {s * TicksPerSec : s \in 1..MaxSec}

Outcomes == {"NEW", "SKIPPED", "NO_MATCH", "LIKE_FAILED", "LIKED"}

VARIABLES
    \* the world outside the process
    lib,                \* Spotify saved tracks, newest first
    yaLikes,            \* Yandex Music: the user's liked keys
    stateFile,          \* content of STATE_FILE
    tmpFile,            \* content of STATE_FILE + ".tmp"
    \* the process (one run of main)
    pc,
    processed_ids,
    last_added_at_str,
    state_wm,           \* state["last_spotify_added_at"] in memory
    ya_existing_likes,
    spotify_liked,
    idx,
    max_added_dt,
    attempt,
    ya_track,
    outcomes,           \* what the run reported for each item
    pages,              \* page requests of this run's fetch
    snapshot_ok,        \* users_likes_tracks() answered in this run
    add_timed_out,      \* an add-like call of this run has timed out
    last_call,          \* how the latest search or add-like call for the
                        \* current item ended
    stopped_by,         \* the except branch of __main__ that ended the run
    \* history
    addOk,              \* per key: add-like calls that returned normally
    resumed,            \* some run was interrupted after it had saved an item
    scenario,           \* "fresh": no file, no likes, no run yet; "first": the
                        \* first run, no fault so far; "other" from then on
    doneState           \* file and likes as the last completed run left them

vars == <<lib, yaLikes, stateFile, tmpFile, pc, processed_ids,
          last_added_at_str, state_wm, ya_existing_likes, spotify_liked, idx,
          max_added_dt, attempt, ya_track, outcomes, pages, snapshot_ok,
          add_timed_out, last_call, stopped_by, addOk, resumed, scenario,
          doneState>>

world == <<lib, yaLikes, stateFile, tmpFile>>
locals == <<processed_ids, last_added_at_str, state_wm, ya_existing_likes,
            spotify_liked, idx, max_added_dt, attempt, ya_track, outcomes,
            pages, snapshot_ok, add_timed_out, last_call>>
history == <<addOk, resumed, scenario, doneState>>

\* ------------------------------------------------------ pure helpers
Min(a, b) == IF a < b THEN a ELSE b

RECURSIVE Reverse(_)
Reverse(s) == IF s = <<>> THEN <<>> ELSE Append(Reverse(Tail(s)), Head(s))

\* parse_spotify_ts: None, "" and text that is no ISO timestamp give None.
parse_spotify_ts(ts) == IF ts <= 0 THEN None ELSE ts

\* Mutant of format_spotify_ts: the time is written one second behind UTC.
FormatBehind(dt) == IF dt = None THEN None ELSE dt - TicksPerSec

\* format_spotify_ts: None stays None; microseconds are cut off.
format_spotify_ts(dt) == IF dt = None THEN None ELSE dt - (dt % TicksPerSec)

\* STATE_DEFAULT
STATE_DEFAULT == [ids |-> {}, wm |-> None]

\* The state file: absent, not JSON, JSON that is no object, or an object
\* whose processed_spotify_ids is a list, something else, or missing.
AbsentFile == [kind |-> "absent", idsShape |-> "missing", ids |-> {}, wm |-> None]
CorruptFile == [kind |-> "corrupt", idsShape |-> "missing", ids |-> {}, wm |-> None]
NonObjectFile == [kind |-> "nonobject", idsShape |-> "missing", ids |-> {}, wm |-> None]
OddObjectFile == [kind |-> "object", idsShape |-> "nonlist", ids |-> {}, wm |-> None]
ObjectFile(ids, wm) == [kind |-> "object", idsShape |-> "list", ids |-> ids, wm |-> wm]
\* A file opened for writing whose JSON text is not complete yet.
PartialFile == [kind |-> "partial", idsShape |-> "missing", ids |-> {}, wm |-> None]

\* load_state: the returned state, or "raise" where the code raises.
load_state(f) ==
    IF f.kind = "absent" THEN [ok |-> TRUE, st |-> STATE_DEFAULT]
    ELSE IF f.kind \in {"corrupt", "partial"} THEN [ok |-> TRUE, st |-> STATE_DEFAULT]
    ELSE IF f.kind = "nonobject" THEN [ok |-> FALSE, st |-> STATE_DEFAULT]
    ELSE [ok |-> TRUE,
          st |-> [ids |-> IF f.idsShape = "list" THEN f.ids ELSE {},
                  wm |-> f.wm]]

\* sp.current_user_saved_tracks(limit, offset)
current_user_saved_tracks(l, limit, offset) ==
    SubSeq(l, offset + 1, Min(offset + limit, Len(l)))

\* Mutant of ScanItems: the stop test is < instead of <=.
RECURSIVE ScanItemsLt(_, _, _, _)
ScanItemsLt(items, i, since_dt, new_tracks) ==
    IF i > Len(items) THEN [new |-> new_tracks, stop |-> FALSE]
    ELSE LET item == items[i]
             added_dt == parse_spotify_ts(item.added_at)
         IN  IF ~item.track THEN ScanItemsLt(items, i + 1, since_dt, new_tracks)
             ELSE IF since_dt # None /\ added_dt # None /\ added_dt < since_dt
                  THEN [new |-> new_tracks, stop |-> TRUE]
             ELSE ScanItemsLt(items, i + 1, since_dt,
                     Append(new_tracks, [id |-> item.id, added_at |-> item.added_at]))

\* The for loop over one page (lines 207-236).
RECURSIVE ScanItems(_, _, _, _)
ScanItems(items, i, since_dt, new_tracks) ==
    IF i > Len(items) THEN [new |-> new_tracks, stop |-> FALSE]
    ELSE LET item == items[i]
             added_dt == parse_spotify_ts(item.added_at)
         IN  IF ~item.track THEN ScanItems(items, i + 1, since_dt, new_tracks)
             ELSE IF since_dt # None /\ added_dt # None /\ added_dt <= since_dt
                  THEN [new |-> new_tracks, stop |-> TRUE]
             ELSE ScanItems(items, i + 1, since_dt,
                     Append(new_tracks, [id |-> item.id, added_at |-> item.added_at]))

\* Mutant of PageLoop: the break of lines 238-239 is missing.
RECURSIVE PageLoopNoBreak(_, _, _, _, _)
PageLoopNoBreak(l, since_dt, offset, new_tracks, n) ==
    LET items == current_user_saved_tracks(l, PageLimit, offset)
        r == ScanItems(items, 1, since_dt, new_tracks)
    IN  IF items = <<>> THEN [new |-> new_tracks, pages |-> n + 1]
        ELSE IF Len(items) < PageLimit THEN [new |-> r.new, pages |-> n + 1]
        ELSE PageLoopNoBreak(l, since_dt, offset + Len(items), r.new, n + 1)

\* The while loop (lines 199-243).
RECURSIVE PageLoop(_, _, _, _, _)
PageLoop(l, since_dt, offset, new_tracks, n) ==
    LET items == current_user_saved_tracks(l, PageLimit, offset)
        r == ScanItems(items, 1, since_dt, new_tracks)
    IN  IF items = <<>> THEN [new |-> new_tracks, pages |-> n + 1]
        ELSE IF r.stop THEN [new |-> r.new, pages |-> n + 1]
        ELSE IF Len(items) < PageLimit THEN [new |-> r.new, pages |-> n + 1]
        ELSE PageLoop(l, since_dt, offset + Len(items), r.new, n + 1)

\* Mutant of fetch_spotify_liked_tracks: the reverse() of line 247 is missing.
FetchNotReversed(l, last_added_at) ==
    LET r == PageLoop(l, parse_spotify_ts(last_added_at), 0, <<>>, 0)
    IN  [tracks |-> r.new, pages |-> r.pages]

\* lines 189-250
fetch_spotify_liked_tracks(l, last_added_at) ==
    LET r == PageLoop(l, parse_spotify_ts(last_added_at), 0, <<>>, 0)
    IN  [tracks |-> Reverse(r.new), pages |-> r.pages]

\* Mutant of fetch_yandex_liked_ids: the except branch is missing a reset.
FetchYandexKeepsAll(likes, answered) == likes

\* fetch_yandex_liked_ids: the liked keys, or the empty set when
\* users_likes_tracks() raises.
fetch_yandex_liked_ids(likes, answered) == IF answered THEN likes ELSE {}

\* build_yandex_like_id
build_yandex_like_id(track_obj) == IF track_obj = NoAlbum THEN None ELSE track_obj

\* Mutant of UpdateMax: the test for max_added_dt is None is missing.
UpdateMaxNoNone(max_dt, added_dt) ==
    IF added_dt # None /\ max_dt # None /\ added_dt > max_dt THEN added_dt ELSE max_dt

\* Mutant of UpdateMax: an item without a parsed added_at resets the maximum.
UpdateMaxAny(max_dt, added_dt) ==
    IF max_dt = None \/ added_dt = None \/ added_dt > max_dt THEN added_dt ELSE max_dt

\* lines 377-379: the running maximum
UpdateMax(max_dt, added_dt) ==
    IF added_dt # None /\ (max_dt = None \/ added_dt > max_dt) THEN added_dt ELSE max_dt

\* Mutant of IsProcessed: the skip of line 381 is missing.
IsProcessedNever(id, processed) == FALSE

\* line 381
IsProcessed(id, processed) == id \in processed

\* Mutant of AlreadyLiked: the test of line 325 is missing.
AlreadyLikedNever(like_id, existing_likes) == FALSE

\* line 325
AlreadyLiked(like_id, existing_likes) == like_id \in existing_likes

\* lines 394-395 / 411-412
NewWatermark(old_wm, max_dt) ==
    IF max_dt # None THEN format_spotify_ts(max_dt) ELSE old_wm

\* save_state works on two paths, the state file and the temporary file.
\* Mutant of open_tmp: the text is written straight into STATE_FILE.
OpenInPlace(file, tmp) == [file |-> PartialFile, tmp |-> tmp]

\* line 150: open(tmp_path, "w") creates or truncates the temporary file.
open_tmp(file, tmp) == [file |-> file, tmp |-> PartialFile]

\* line 151: json.dump and the end of the with block
json_dump(ids, wm) == ObjectFile(ids, wm)

\* Mutant of os_replace: the temporary file is dropped, not moved.
ReplaceLost(file, tmp) == [file |-> file, tmp |-> AbsentFile]

\* line 152: os.replace(tmp_path, STATE_FILE)
os_replace(file, tmp) == [file |-> tmp, tmp |-> AbsentFile]

\* Mutant of RetryLeft: range(4).
RetryLeftFour(n) == n + 1 < MaxAttempts + 1

\* for attempt in range(3): after pass n (counted from 0) comes another one
RetryLeft(n) == n + 1 < MaxAttempts

\* Mutant of NextIdx: the for loop stays on the same item.
SameIdx(i) == i

\* line 371: enumerate moves to the next item
NextIdx(i) == i + 1

\* What ends a run ahead of time: the except branch of lines 427-431
\* (RuntimeError, SpotifyOauthError, UnauthorizedError) or of lines 434-439.
ErrorKinds == {"config", "other"}
CallEnds == {"none", "answer", "timeout", "error"}

\* ---------------------------------------------------------- the state
NoOutcomes == [i \in ItemIds |-> "NEW"]
NoDone == [set |-> FALSE, file |-> AbsentFile, likes |-> {}]

ResetLocals ==
    /\ processed_ids' = {}
    /\ last_added_at_str' = None
    /\ state_wm' = None
    /\ ya_existing_likes' = {}
    /\ spotify_liked' = <<>>
    /\ idx' = 0
    /\ max_added_dt' = None
    /\ attempt' = 0
    /\ ya_track' = None
    /\ outcomes' = NoOutcomes
    /\ pages' = 0
    /\ snapshot_ok' = FALSE
    /\ add_timed_out' = FALSE
    /\ last_call' = "none"

Init ==
    /\ lib = <<>>
    /\ yaLikes \in SUBSET Keys
    /\ stateFile \in {AbsentFile, CorruptFile, NonObjectFile, OddObjectFile}
    /\ tmpFile = AbsentFile
    /\ pc = "idle"
    /\ processed_ids = {}
    /\ last_added_at_str = None
    /\ state_wm = None
    /\ ya_existing_likes = {}
    /\ spotify_liked = <<>>
    /\ idx = 0
    /\ max_added_dt = None
    /\ attempt = 0
    /\ ya_track = None
    /\ outcomes = NoOutcomes
    /\ pages = 0
    /\ snapshot_ok = FALSE
    /\ add_timed_out = FALSE
    /\ last_call = "none"
    /\ stopped_by = "none"
    /\ addOk = [k \in Keys |-> 0]
    /\ resumed = FALSE
    /\ scenario = IF yaLikes = {} /\ stateFile = AbsentFile THEN "fresh" ELSE "other"
    /\ doneState = NoDone

Running == pc \notin {"idle", "done", "aborted"}
Cur == spotify_liked[idx]

\* Positions 1..n of this run's items that were searched for and then saved.
SavedBefore(n) ==
    {j \in 1..Min(n, Len(spotify_liked)) :
        outcomes[spotify_liked[j].id] \notin {"NEW", "SKIPPED"}}

ParsedTimes(l) == {parse_spotify_ts(l[j].added_at) : j \in 1..Len(l)} \ {None}
OddEntries(l) == {j \in 1..Len(l) : ~l[j].track \/ l[j].added_at = None}
Without(l, id) == SelectSeq(l, LAMBDA e : e.id # id)

\* ------------------------------------------------- the environment
\* The user likes a track in Spotify: a new one, or one liked before, which
\* Spotify then lists once, with the new added_at. The listing is newest
\* first. An entry may lack its track payload or its added_at.
LikeInSpotify ==
    /\ pc = "idle"
    /\ \E id \in 1..Min(Len(lib) + 1, MaxItems), a \in Secs \cup {None}, t \in BOOLEAN :
          /\ id <= Len(lib) => id <= MaxReliked
          /\ \A old \in ParsedTimes(lib) : a = None \/ a >= old
          /\ ~t => a = None
          /\ (a = None \/ ~t) => Cardinality(OddEntries(Without(lib, id))) < MaxOdd
          /\ lib' = <<[id |-> id, added_at |-> a, track |-> t]>> \o Without(lib, id)
          /\ lib' # lib
    /\ doneState' = NoDone
    /\ UNCHANGED <<yaLikes, stateFile, tmpFile, pc, locals, stopped_by,
                   addOk, resumed, scenario>>

\* Something other than the plain first import has happened.
Fault == scenario' = "other"

\* The process is killed between two steps.
Crash ==
    /\ Running
    /\ pc' = "idle"
    /\ resumed' = (resumed \/ (idx >= 1 /\ SavedBefore(idx - 1) # {}))
    /\ ResetLocals
    /\ Fault
    /\ UNCHANGED <<world, stopped_by, addOk, doneState>>

\* An exception leaves main(): __main__ prints it and calls sys.exit(1).
Abort(kind) ==
    /\ pc' = "aborted"
    /\ stopped_by' = kind
    /\ ResetLocals
    /\ Fault
    /\ UNCHANGED <<world, addOk, resumed, doneState>>

\* main() returns: the run is complete.
Finish ==
    /\ pc' = "done"
    /\ doneState' = [set |-> TRUE, file |-> stateFile', likes |-> yaLikes']

\* The process ends.
Exit ==
    /\ pc \in {"done", "aborted"}
    /\ pc' = "idle"
    /\ stopped_by' = "none"
    /\ ResetLocals
    /\ UNCHANGED <<world, history>>

\* ---------------------------------------------------------- main()
\* lines 349-350: init_spotify_client, init_yandex_client. The keys or the
\* token are missing (RuntimeError), the token is rejected
\* (UnauthorizedError), or Client.init() fails otherwise.
StartRun ==
    /\ pc = "idle"
    /\ \/ /\ pc' = "load"
          /\ ResetLocals
          /\ scenario' = IF scenario = "fresh" THEN "first" ELSE "other"
          /\ UNCHANGED <<world, stopped_by, addOk, resumed, doneState>>
       \/ \E kind \in ErrorKinds : Abort(kind)

\* lines 352-354
LoadState ==
    /\ pc = "load"
    /\ LET r == load_state(stateFile)
       IN  IF r.ok
           THEN /\ processed_ids' = r.st.ids
                /\ last_added_at_str' = r.st.wm
                /\ state_wm' = r.st.wm
                /\ pc' = "snapshot"
                /\ UNCHANGED <<world, history, stopped_by, ya_existing_likes,
                               spotify_liked, idx, max_added_dt, attempt,
                               ya_track, outcomes, pages, snapshot_ok,
                               add_timed_out, last_call>>
           ELSE Abort("other")

\* line 356: fetch_yandex_liked_ids
FetchYandexLikedIds ==
    /\ pc = "snapshot"
    /\ \E answered \in BOOLEAN :
          /\ ya_existing_likes' = fetch_yandex_liked_ids(yaLikes, answered)
          /\ snapshot_ok' = answered
          /\ IF answered THEN UNCHANGED scenario ELSE Fault
    /\ pc' = "fetch"
    /\ UNCHANGED <<world, processed_ids, last_added_at_str, state_wm,
                   spotify_liked, idx, max_added_dt, attempt, ya_track,
                   outcomes, pages, add_timed_out, last_call, stopped_by,
                   addOk, resumed, doneState>>

\* lines 358-369: fetch_spotify_liked_tracks, the early return, max_added_dt.
\* The first request to Spotify is sent here: current_user_saved_tracks may
\* raise SpotifyOauthError or something else.
FetchSpotify ==
    /\ pc = "fetch"
    /\ \/ LET r == fetch_spotify_liked_tracks(lib, last_added_at_str)
          IN  /\ UNCHANGED <<world, processed_ids, last_added_at_str, state_wm,
                             ya_existing_likes, attempt, ya_track, outcomes,
                             snapshot_ok, add_timed_out, last_call, stopped_by,
                             addOk, resumed, scenario>>
              /\ spotify_liked' = r.tracks
              /\ pages' = r.pages
              /\ IF r.tracks = <<>>
                 THEN /\ Finish
                      /\ UNCHANGED <<idx, max_added_dt>>
                 ELSE /\ pc' = "loop"
                      /\ idx' = 1
                      /\ max_added_dt' = parse_spotify_ts(last_added_at_str)
                      /\ UNCHANGED doneState
       \/ \E kind \in ErrorKinds : Abort(kind)

\* The end of one iteration of the for loop of line 371.
NextItem ==
    /\ idx' = NextIdx(idx)
    /\ IF idx' > Len(spotify_liked)
       THEN Finish
       ELSE pc' = "loop" /\ UNCHANGED doneState

\* lines 371-383
LoopStep ==
    /\ pc = "loop"
    /\ UNCHANGED <<world, processed_ids, last_added_at_str, state_wm,
                   ya_existing_likes, spotify_liked, ya_track, pages,
                   snapshot_ok, add_timed_out, last_call, stopped_by,
                   addOk, resumed, scenario>>
    /\ max_added_dt' = UpdateMax(max_added_dt, parse_spotify_ts(Cur.added_at))
    /\ IF IsProcessed(Cur.id, processed_ids)
       THEN /\ outcomes' = [outcomes EXCEPT ![Cur.id] = "SKIPPED"]
            /\ NextItem
            /\ UNCHANGED attempt
       ELSE /\ pc' = "search"
            /\ attempt' = 0
            /\ UNCHANGED <<idx, outcomes, doneState>>

\* lines 387-397: one pass of the retry loop of find_best_yandex_match
\* (lines 283-307): an answer, or a TimedOutError.
Search ==
    /\ pc = "search"
    /\ \/ \E r \in Keys \cup {None, NoAlbum} :
             /\ IF r = None
                THEN /\ outcomes' = [outcomes EXCEPT ![Cur.id] = "NO_MATCH"]
                     /\ pc' = "save"
                ELSE /\ pc' = "like"
                     /\ UNCHANGED outcomes
             /\ ya_track' = r
             /\ attempt' = 0
             /\ last_call' = "answer"
             /\ IF r = NoAlbum THEN Fault ELSE UNCHANGED scenario
       \/ /\ IF RetryLeft(attempt)
             THEN /\ attempt' = attempt + 1
                  /\ pc' = "search"
                  /\ UNCHANGED outcomes
             ELSE /\ outcomes' = [outcomes EXCEPT ![Cur.id] = "NO_MATCH"]
                  /\ pc' = "save"
                  /\ attempt' = 0
          /\ ya_track' = None
          /\ last_call' = "timeout"
          /\ Fault
    /\ UNCHANGED <<world, processed_ids, last_added_at_str, state_wm,
                   ya_existing_likes, spotify_liked, idx, max_added_dt, pages,
                   snapshot_ok, add_timed_out, stopped_by, addOk, resumed,
                   doneState>>

\* ym.search raises something that is no TimedOutError (line 285): nothing
\* in find_best_yandex_match or main catches it.
SearchError ==
    /\ pc = "search"
    /\ \E kind \in ErrorKinds : Abort(kind)

\* lines 399, 320-327: like_yandex_track up to the retry loop
Like ==
    /\ pc = "like"
    /\ LET like_id == build_yandex_like_id(ya_track)
       IN  IF like_id = None
           THEN /\ outcomes' = [outcomes EXCEPT ![Cur.id] = "LIKE_FAILED"]
                /\ pc' = "save"
                /\ ya_track' = None
           ELSE IF AlreadyLiked(like_id, ya_existing_likes)
           THEN /\ outcomes' = [outcomes EXCEPT ![Cur.id] = "LIKED"]
                /\ pc' = "save"
                /\ ya_track' = None
           ELSE /\ pc' = "add"
                /\ UNCHANGED <<outcomes, ya_track>>
    /\ attempt' = 0
    /\ UNCHANGED <<world, history, stopped_by, processed_ids,
                   last_added_at_str, state_wm, ya_existing_likes,
                   spotify_liked, idx, max_added_dt, pages, snapshot_ok,
                   add_timed_out, last_call>>

\* lines 329-345: one pass of the retry loop around users_likes_tracks_add:
\* it returns, it times out (the like applied or not), or it raises.
Add ==
    /\ pc = "add"
    /\ LET like_id == build_yandex_like_id(ya_track)
       IN  \/ /\ yaLikes' = yaLikes \cup {like_id}
              /\ ya_existing_likes' = ya_existing_likes \cup {like_id}
              /\ addOk' = [addOk EXCEPT ![like_id] = Min(@ + 1, 2)]
              /\ outcomes' = [outcomes EXCEPT ![Cur.id] = "LIKED"]
              /\ pc' = "save"
              /\ attempt' = 0
              /\ ya_track' = None
              /\ last_call' = "answer"
              /\ UNCHANGED <<scenario, add_timed_out>>
           \/ /\ \/ yaLikes' = yaLikes \cup {like_id}
                 \/ yaLikes' = yaLikes
              /\ add_timed_out' = TRUE
              /\ IF RetryLeft(attempt)
                 THEN /\ attempt' = attempt + 1
                      /\ pc' = "add"
                      /\ UNCHANGED <<outcomes, ya_track>>
                 ELSE /\ outcomes' = [outcomes EXCEPT ![Cur.id] = "LIKE_FAILED"]
                      /\ pc' = "save"
                      /\ attempt' = 0
                      /\ ya_track' = None
              /\ last_call' = "timeout"
              /\ Fault
              /\ UNCHANGED <<ya_existing_likes, addOk>>
           \/ /\ outcomes' = [outcomes EXCEPT ![Cur.id] = "LIKE_FAILED"]
              /\ pc' = "save"
              /\ attempt' = 0
              /\ ya_track' = None
              /\ last_call' = "error"
              /\ Fault
              /\ UNCHANGED <<yaLikes, ya_existing_likes, addOk, add_timed_out>>
    /\ UNCHANGED <<lib, stateFile, tmpFile, processed_ids, last_added_at_str,
                   state_wm, spotify_liked, idx, max_added_dt, pages,
                   snapshot_ok, stopped_by, resumed, doneState>>

\* lines 392-396 and 409-413: mark processed, set the watermark, and enter
\* save_state up to the open of line 150.
SaveState ==
    /\ pc = "save"
    /\ processed_ids' = processed_ids \cup {Cur.id}
    /\ state_wm' = NewWatermark(state_wm, max_added_dt)
    /\ LET r == open_tmp(stateFile, tmpFile)
       IN  stateFile' = r.file /\ tmpFile' = r.tmp
    /\ pc' = "dump"
    /\ UNCHANGED <<lib, yaLikes, last_added_at_str, ya_existing_likes,
                   spotify_liked, idx, max_added_dt, attempt, ya_track,
                   outcomes, pages, snapshot_ok, add_timed_out, last_call,
                   stopped_by, history>>

\* line 151: the state is written to the temporary file and the file closed
JsonDump ==
    /\ pc = "dump"
    /\ tmpFile' = json_dump(processed_ids, state_wm)
    /\ pc' = "replace"
    /\ UNCHANGED <<lib, yaLikes, stateFile, locals, stopped_by, history>>

\* line 152: os.replace; save_state returns and the iteration ends
OsReplace ==
    /\ pc = "replace"
    /\ LET r == os_replace(stateFile, tmpFile)
       IN  stateFile' = r.file /\ tmpFile' = r.tmp
    /\ last_call' = "none"
    /\ UNCHANGED <<lib, yaLikes, processed_ids, last_added_at_str, state_wm,
                   ya_existing_likes, spotify_liked, max_added_dt, attempt,
                   ya_track, outcomes, pages, snapshot_ok, add_timed_out,
                   stopped_by, addOk, resumed, scenario>>
    /\ NextItem

\* The steps of the process itself.
RunStep ==
    \/ LoadState
    \/ FetchYandexLikedIds
    \/ FetchSpotify
    \/ LoopStep
    \/ Search
    \/ SearchError
    \/ Like
    \/ Add
    \/ SaveState
    \/ JsonDump
    \/ OsReplace

Next ==
    \/ LikeInSpotify
    \/ Crash
    \/ Exit
    \/ StartRun
    \/ LoadState
    \/ FetchYandexLikedIds
    \/ FetchSpotify
    \/ LoopStep
    \/ Search
    \/ SearchError
    \/ Like
    \/ Add
    \/ SaveState
    \/ JsonDump
    \/ OsReplace

Spec == Init /\ [][Next]_vars

\* Runs that nobody kills: each step of main() that can be taken is taken
\* in the end (the calls return or raise, the sleeps end).
LiveNext ==
    \/ LikeInSpotify
    \/ Exit
    \/ StartRun
    \/ RunStep

LiveSpec == Init /\ [][LiveNext]_vars /\ WF_vars(RunStep)

TypeOK ==
    /\ pc \in {"idle", "load", "snapshot", "fetch", "loop", "search", "like",
               "add", "save", "dump", "replace", "done", "aborted"}
    /\ yaLikes \subseteq Keys
    /\ processed_ids \subseteq ItemIds
    /\ idx \in 0..(MaxItems + 1)
    /\ attempt \in 0..(MaxAttempts - 1)
    /\ outcomes \in [ItemIds -> Outcomes]
    /\ last_call \in CallEnds
    /\ stopped_by \in ErrorKinds \cup {"none"}
    /\ tmpFile.kind \in {"absent", "partial", "object"}

\* ===================================================== the claims
\* What the state file holds for a later run.
PersistedIds ==
    IF stateFile.kind = "object" /\ stateFile.idsShape = "list" THEN stateFile.ids ELSE {}

C2_CrashSafe ==
    resumed =>
       /\ pc \in {"search", "like", "add"} => Cur.id \notin PersistedIds
       /\ (pc = "loop" /\ idx = 1) =>
             \A j \in 1..Len(spotify_liked) :
                \/ spotify_liked[j].added_at = None
                \/ spotify_liked[j].added_at > stateFile.wm

\* A run after an interruption searches for a further item.
C2_Witness ==
    resumed /\ pc = "search" /\ PersistedIds # {} /\ stateFile.wm # None

\* C3: after a completed run and with the Spotify listing unchanged since, a
\* run sends no add-like call and the state file and the target's likes stay
\* as the completed run left them.
C3_Idempotent ==
    doneState.set =>
       /\ pc # "add"
       /\ stateFile = doneState.file
       /\ yaLikes = doneState.likes

\* A second run has fetched items again (none of them has a usable added_at
\* above the watermark) and is looping over them.
C3_Witness ==
    doneState.set /\ pc = "loop" /\ PersistedIds # {}

\* C4: when the candidate's key is in the in-memory snapshot set, the step
\* sends nothing to the target, reports LIKED and goes on to save; the save
\* puts the item's id into processed_ids, writes the temporary file and
\* moves it over the state file, which then holds the id.
C4_NoDuplicateLikes ==
    /\ [][(pc = "like" /\ ya_track \in ya_existing_likes /\ pc' # "idle") =>
             /\ pc' = "save"
             /\ outcomes'[Cur.id] = "LIKED"
             /\ yaLikes' = yaLikes
             /\ addOk' = addOk]_vars
    /\ [][(pc = "save" /\ outcomes[Cur.id] = "LIKED" /\ pc' # "idle") =>
             /\ pc' = "dump"
             /\ Cur.id \in processed_ids']_vars
    /\ [][(pc = "dump" /\ pc' # "idle") => pc' = "replace"]_vars
    /\ [][(pc = "replace" /\ outcomes[Cur.id] = "LIKED" /\ pc' # "idle") =>
             /\ stateFile'.kind = "object"
             /\ Cur.id \in stateFile'.ids]_vars

\* The key was inserted earlier in the same run: the snapshot fetch failed.
C4_Witness ==
    pc = "like" /\ ~snapshot_ok /\ ya_track \in ya_existing_likes

\* C5: no step lowers the persisted watermark, and a step that changes it is
\* the os.replace of a save that also persists the id of the item being
\* marked processed.
C5_WatermarkMonotone ==
    [][/\ stateFile'.wm >= stateFile.wm
       /\ stateFile'.wm # stateFile.wm =>
             (pc = "replace" /\ Cur.id \notin PersistedIds /\ Cur.id \in stateFile'.ids)]_vars

\* A save is about to move an existing watermark forward.
C5_Witness ==
    pc = "replace" /\ stateFile.wm # None /\ max_added_dt > stateFile.wm

\* The added_at values, as parsed, of the items this run's fetch returned.
ConsideredTimes == ParsedTimes(spotify_liked)
MaxOf(S) == CHOOSE m \in S : \A x \in S : x <= m

\* C6: when a run that was handed at least one item is complete, the
\* persisted watermark is the largest added_at among the items it was handed.
C6_WatermarkIsMaxConsidered ==
    (pc = "done" /\ ConsideredTimes # {}) => stateFile.wm = MaxOf(ConsideredTimes)

\* Position i of this run's items is at work or has been handled.
Begun(i) == i < idx \/ (i = idx /\ pc # "loop")

\* C7: an item the reconciler has begun to handle is never newer than an
\* item of the same run it has not begun yet.
C7_Chronological ==
    \A i, j \in 1..Len(spotify_liked) :
       (Begun(i) /\ ~Begun(j) /\ spotify_liked[i].added_at # None
          /\ spotify_liked[j].added_at # None)
       => spotify_liked[i].added_at <= spotify_liked[j].added_at

\* Three items liked at three different seconds came in over two pages and
\* the middle one is being searched for.
C7_Witness ==
    /\ pc = "search" /\ idx = 2 /\ pages >= 2 /\ Len(spotify_liked) = 3
    /\ None < spotify_liked[1].added_at
    /\ spotify_liked[1].added_at < spotify_liked[2].added_at
    /\ spotify_liked[2].added_at < spotify_liked[3].added_at

\* The first position of the listing that holds a usable entry whose
\* added_at is at or below w (0: there is none).
StopPos(w) ==
    LET S == {p \in 1..Len(lib) :
                 lib[p].track /\ lib[p].added_at # None /\ lib[p].added_at <= w}
    IN  IF S = {} THEN 0 ELSE CHOOSE p \in S : \A q \in S : p <= q

\* The ids the fetch of this run returned.
ReturnedIds == {spotify_liked[j].id : j \in 1..Len(spotify_liked)}

\* The page requests the stop rule allows: up to the page of the first entry
\* at or below w, or, without one, up to the first short or empty page.
PagesAllowed(w) ==
    IF StopPos(w) > 0 THEN ((StopPos(w) - 1) \div PageLimit) + 1
    ELSE (Len(lib) \div PageLimit) + 1

\* C8, as stated: with a watermark W the fetch returns only items whose
\* added_at is above W, stops at the first item at or below W and requests
\* no page after it.
C8_OnlyNewer ==
    (pages > 0 /\ last_added_at_str # None) =>
       /\ \A j \in 1..Len(spotify_liked) : spotify_liked[j].added_at > last_added_at_str
       /\ pages = PagesAllowed(last_added_at_str)

\* C8, amended: with a watermark W the fetch returns exactly the usable
\* entries listed before the first usable entry at or below W: each has an
\* added_at above W or none at all, every usable entry above W is among
\* them, and no page after the one holding that first entry is requested.
C8_IncrementalFetch ==
    (pages > 0 /\ last_added_at_str # None) =>
       LET w == last_added_at_str
           stop == StopPos(w)
           before == {p \in 1..Len(lib) : lib[p].track /\ (stop = 0 \/ p < stop)}
       IN  /\ ReturnedIds = {lib[p].id : p \in before}
           /\ Len(spotify_liked) = Cardinality(before)
           /\ \A j \in 1..Len(spotify_liked) :
                 \/ spotify_liked[j].added_at = None
                 \/ spotify_liked[j].added_at > w
           /\ \A p \in 1..Len(lib) :
                 (lib[p].track /\ lib[p].added_at > w) => lib[p].id \in ReturnedIds
           /\ pages = PagesAllowed(w)

\* The listing is longer than a page, the fetch returned something and
\* stopped inside the first page.
C8_Witness ==
    /\ pages = 1 /\ last_added_at_str # None /\ Len(lib) > PageLimit
    /\ spotify_liked # <<>> /\ StopPos(last_added_at_str) > 0

\* The first-import scenario: no state file, no likes in the target, no
\* fault, the listing is b (newer) before a (older), the search found a
\* candidate for a and none for b, and the run is complete.
FirstImportDone ==
    /\ scenario = "first" /\ pc = "done" /\ Len(lib) = 2
    /\ lib[1].track /\ lib[2].track
    /\ lib[2].added_at # None /\ lib[1].added_at > lib[2].added_at
    /\ outcomes[lib[2].id] # "NO_MATCH"
    /\ outcomes[lib[1].id] = "NO_MATCH"

\* C9: in the first-import scenario a is LIKED, the target holds exactly
\* one key, which one add-like call put there, and the state file holds
\* both ids and b's added_at.
C9_FirstImport ==
    FirstImportDone =>
       /\ outcomes[lib[2].id] = "LIKED"
       /\ Cardinality(yaLikes) = 1
       /\ \A k \in Keys : addOk[k] = IF k \in yaLikes THEN 1 ELSE 0
       /\ stateFile = ObjectFile({lib[1].id, lib[2].id}, lib[1].added_at)

C9_Witness == FirstImportDone /\ yaLikes # {}

\* C10: load_state returns a state whatever the file holds, and the default
\* state when the file is absent or is no JSON.
C10_LoadNeverFails ==
    pc = "load" =>
       /\ load_state(stateFile).ok
       /\ stateFile.kind \in {"absent", "corrupt"} =>
             load_state(stateFile).st = STATE_DEFAULT

\* The steps inside save_state: the temporary file is open or written.
InsideSave == pc \in {"dump", "replace"}

\* C11: the state file never holds a partly written text, and a step changes
\* it only by os.replace, to the complete new state; what load_state reads
\* from it after any step, an interruption inside save_state included, is
\* what it read before or the complete new state.
C11_AtomicSave ==
    /\ [](stateFile.kind # "partial")
    /\ [][stateFile' # stateFile =>
             /\ pc = "replace"
             /\ stateFile' = ObjectFile(processed_ids, state_wm)]_vars
    /\ [][InsideSave =>
             \/ load_state(stateFile') = load_state(stateFile)
             \/ load_state(stateFile') =
                   [ok |-> TRUE, st |-> [ids |-> processed_ids, wm |-> state_wm]]]_vars

\* A run was killed inside save_state while the temporary file was half
\* written, after an earlier save; the next run is about to load.
C11_Witness ==
    pc = "load" /\ tmpFile.kind = "partial" /\ stateFile.kind = "object"

\* The iteration for the current item ends: the next item or the end of main.
RunContinues ==
    \/ pc' = "loop" /\ idx' = idx + 1 /\ idx < Len(spotify_liked)
    \/ pc' = "done" /\ idx = Len(spotify_liked)

\* C12: a search or add-like call is made at most MaxAttempts times for an
\* item; another attempt follows only a timeout; when the last attempt
\* times out the item is NO_MATCH (search) or LIKE_FAILED (add-like), its id
\* is put into processed_ids, the state is saved with it and the run goes on
\* with the next item.
C12_BoundedRetry ==
    /\ [](pc \in {"search", "add"} => attempt + 1 <= MaxAttempts)
    /\ [][(pc \in {"search", "add"} /\ pc' = pc) =>
             (last_call' = "timeout" /\ attempt' = attempt + 1)]_vars
    /\ [][(pc = "search" /\ last_call' = "timeout" /\ attempt + 1 = MaxAttempts) =>
             (pc' = "save" /\ outcomes'[Cur.id] = "NO_MATCH")]_vars
    /\ [][(pc = "add" /\ last_call' = "timeout" /\ attempt + 1 = MaxAttempts) =>
             (pc' = "save" /\ outcomes'[Cur.id] = "LIKE_FAILED")]_vars
    /\ [][(pc = "save" /\ last_call = "timeout" /\ pc' # "idle") =>
             (pc' = "dump" /\ Cur.id \in processed_ids')]_vars
    /\ [][(pc = "dump" /\ last_call = "timeout" /\ pc' # "idle") =>
             (pc' = "replace" /\ Cur.id \in tmpFile'.ids)]_vars
    /\ [][(pc = "replace" /\ last_call = "timeout" /\ pc' # "idle") =>
             (Cur.id \in stateFile'.ids /\ RunContinues)]_vars

\* Three add-like calls for an item timed out; it is being saved and another
\* item waits.
C12_Witness ==
    /\ pc = "replace" /\ last_call = "timeout"
    /\ outcomes[Cur.id] = "LIKE_FAILED" /\ idx < Len(spotify_liked)

\* C13, as stated: a search or add-like call that raises something other
\* than a timeout is not retried and does not end the run: the item is
\* reported NO_MATCH (search) or LIKE_FAILED (add-like) and goes on to be
\* saved.
C13_NonTransientLocal ==
    /\ [][(pc = "search" /\ (last_call' = "error" \/ pc' = "aborted")) =>
             (pc' = "save" /\ outcomes'[Cur.id] = "NO_MATCH")]_vars
    /\ [][(pc = "add" /\ (last_call' = "error" \/ pc' = "aborted")) =>
             (pc' = "save" /\ outcomes'[Cur.id] = "LIKE_FAILED")]_vars

\* The add-like half of C13 alone.
C13_AddErrorLocal ==
    [][(pc = "add" /\ (last_call' = "error" \/ pc' = "aborted")) =>
          (pc' = "save" /\ outcomes'[Cur.id] = "LIKE_FAILED")]_vars

\* This run has called neither save_state nor add-like so far: no item
\* before the current one was searched for, and the current one is not
\* past its search.
NothingDoneYet ==
    /\ SavedBefore(idx - 1) = {}
    /\ pc \notin {"like", "add", "save", "dump", "replace"}

\* C14, as stated: a run that ends in the branch for configuration and
\* authorization errors has called neither save_state nor add-like.
C14_AbortBeforeMutation ==
    [][(pc' = "aborted" /\ stopped_by' = "config") => NothingDoneYet]_vars

\* C14 for the errors raised before the reconcile loop (the two init
\* functions and the first request to Spotify).
C14_EarlyAbortClean ==
    [][(pc' = "aborted" /\ stopped_by' = "config" /\ pc # "search") =>
          (NothingDoneYet /\ idx = 0)]_vars

\* C15: the step that lists the target's likes always leads on to the fetch
\* from Spotify, never to the end of the run, and when the listing failed
\* the snapshot set is empty.
C15_SnapshotBestEffort ==
    [][(pc = "snapshot" /\ pc' # "idle") =>
          /\ pc' = "fetch"
          /\ ~snapshot_ok' => ya_existing_likes' = {}]_vars

\* The listing of the target's likes failed although the target holds a
\* like, and the run is searching for a fetched item.
C15_Witness ==
    pc = "search" /\ ~snapshot_ok /\ yaLikes # {} /\ ya_existing_likes = {}

\* The positions of the listing that hold a usable entry with an added_at.
Dated == {p \in 1..Len(lib) : lib[p].track /\ lib[p].added_at # None}

\* C16, as stated: every usable source item whose added_at is at or below
\* the persisted watermark has its id among the persisted processed ids,
\* also when several items share an added_at.
C16_TrueHighWater ==
    \A p \in Dated :
       (stateFile.wm # None /\ lib[p].added_at <= stateFile.wm)
          => lib[p].id \in PersistedIds

\* C17, as stated: when the current item is skipped as already processed and
\* the running maximum is above the persisted watermark, the state file
\* holds the advanced watermark before the next item is handled.
C17_SkipPersists ==
    [][(pc = "loop" /\ IsProcessed(Cur.id, processed_ids) /\ pc' # "idle"
          /\ max_added_dt' # None /\ max_added_dt' > stateFile.wm) =>
             stateFile'.wm = format_spotify_ts(max_added_dt')]_vars

\* The outcomes that are followed by a save.
Settled == {"NO_MATCH", "LIKE_FAILED", "LIKED"}

\* C18: while a run works on an item, every item of the run before it is in
\* the persisted processed ids, and an item that has been matched or liked
\* and is not persisted yet can only be the current one.
C18_PersistedBeforeNext ==
    \A j \in 1..Len(spotify_liked) :
       /\ j < idx => spotify_liked[j].id \in PersistedIds
       /\ (outcomes[spotify_liked[j].id] \in Settled
             /\ spotify_liked[j].id \notin PersistedIds) => j = idx

\* The second item is searched for after the first one failed to be liked.
C18_Witness ==
    /\ pc = "search" /\ idx = 2
    /\ outcomes[spotify_liked[1].id] = "LIKE_FAILED"

\* C19: a usable entry without a parsed added_at that is listed before the
\* stop position is returned by the fetch; the loop step for such an item
\* leaves the running maximum as it is and, unless the id is processed, goes
\* on to the search; no later step for the item changes the maximum; the
\* save marks the item processed and the state file then holds its id and
\* the watermark that held before the item: the running maximum, or the
\* loaded watermark when there is none.
C19_UndatedItem ==
    /\ [](pages > 0 =>
            \A p \in 1..Len(lib) :
               (/\ lib[p].track /\ parse_spotify_ts(lib[p].added_at) = None
                /\ (StopPos(last_added_at_str) = 0 \/ p < StopPos(last_added_at_str)))
               => lib[p].id \in ReturnedIds)
    /\ [][(pc = "loop" /\ parse_spotify_ts(Cur.added_at) = None /\ pc' # "idle") =>
             /\ max_added_dt' = max_added_dt
             /\ ~IsProcessed(Cur.id, processed_ids) => pc' = "search"]_vars
    /\ [][(pc \in {"search", "like", "add", "save", "dump"}
             /\ pc' \notin {"idle", "aborted"}) =>
             max_added_dt' = max_added_dt]_vars
    /\ [][(pc = "replace" /\ parse_spotify_ts(Cur.added_at) = None /\ pc' # "idle") =>
             /\ Cur.id \in processed_ids
             /\ Cur.id \in stateFile'.ids
             /\ stateFile'.wm = IF max_added_dt # None
                                THEN format_spotify_ts(max_added_dt)
                                ELSE last_added_at_str]_vars

\* An item without added_at was liked in the target and is being saved in a
\* run whose running maximum is set.
C19_Witness ==
    /\ pc = "replace" /\ parse_spotify_ts(Cur.added_at) = None
    /\ max_added_dt # None /\ outcomes[Cur.id] = "LIKED"

\* C20: a started run that is not killed ends, by the return of main or by
\* an exception; the fetch sends no more page requests than the listing has
\* pages, plus one; a retry loop is left after MaxAttempts timeouts at the
\* latest; the loop moves from each fetched item to the next one, and when
\* main returns every fetched item has been handled.
C20_Terminates ==
    /\ (pc = "load") ~> (pc \in {"done", "aborted"})
    /\ [](pages <= (Len(lib) \div PageLimit) + 1)
    /\ [](pc \in {"search", "add"} => attempt < MaxAttempts)
    /\ [][(pc \in {"search", "add"} /\ pc' = pc) => attempt' = attempt + 1]_vars
    /\ [][(pc \in {"loop", "replace"} /\ pc' \in {"loop", "done"}) =>
             idx' = idx + 1]_vars
    /\ [](pc = "done" =>
             /\ spotify_liked # <<>> => idx = Len(spotify_liked) + 1
             /\ \A j \in 1..Len(spotify_liked) :
                   outcomes[spotify_liked[j].id] # "NEW")

\* A run that needed two page requests and handled three items, one of
\* which could not be liked, has returned.
C20_Witness ==
    /\ pc = "done" /\ pages >= 2 /\ Len(spotify_liked) = 3
    /\ \E i \in ItemIds : outcomes[i] = "LIKE_FAILED"

====
